---- MODULE Spec2Model ----
(***************************************************************************)
(* Model of kitt-throbbler (src/src/lib.rs): the KnightRiderAnimator       *)
(* builder, the frame renderer draw_frame and the animation loop run_demo. *)
(*                                                                         *)
(* Representation of machine values:                                       *)
(*  - usize: a value is represented by a small integer v; v >= 0 stands    *)
(*    for v itself and v < 0 stands for 2^64 + v (the wrapped value), so   *)
(*    wrapping addition and subtraction are the integer ones and only the  *)
(*    comparisons and the overflow tests need care (ULt, UAddOverflows,    *)
(*    USubOverflows).  All magnitudes stay far below 2^31.                 *)
(*  - f64: rates are finite and the inputs are chosen so that every        *)
(*    product and quotient the code forms is computed on integers; the     *)
(*    sentinel f64::MAX is F64_MAX.                                        *)
(*  - time: milliseconds since `start` (Instant::now() at line 236).       *)
(*  - arithmetic overflow panics in a debug build and wraps in a release   *)
(*    build; `build` records which one runs.                               *)
(***************************************************************************)
EXTENDS Integers, Sequences, FiniteSets, TLC

VARIABLES
    build,            \* "debug" | "release": the overflow behaviour
    pc,               \* "new" | "built" | "running" | "done" | "panicked"
    led_count,        \* KnightRiderAnimator.led_count (usize)
    show_metrics,     \* KnightRiderAnimator.show_metrics
    duration_secs,    \* run_demo argument
    base_speed_ms,    \* run_demo argument
    max_rate_value,   \* run_demo argument
    now,              \* start.elapsed() in ms
    position,         \* run_demo local (usize)
    direction,        \* run_demo local (i32)
    rate,             \* run_demo local
    min_rate,         \* run_demo local
    max_rate,         \* run_demo local
    current_pattern,  \* run_demo local, index into patterns
    pattern_start,    \* run_demo local, ms since start
    delay_ms,         \* run_demo local, last computed delay
    frame,            \* the last frame handed to the terminal, or NoFrame
    frames,           \* number of frames drawn in this run
    rotations,        \* number of pattern rotations in this run
    sampled,          \* the rates sampled in this run
    tick_start,       \* start.elapsed() read by the loop test of the last tick
    last_call         \* the last public call made on the animator, with its argument

vars == <<build, pc, led_count, show_metrics, duration_secs, base_speed_ms,
          max_rate_value, now, position, direction, rate, min_rate, max_rate,
          current_pattern, pattern_start, delay_ms, frame, frames, rotations,
          sampled, tick_start, last_call>>

config == <<led_count, show_metrics>>
runArgs == <<duration_secs, base_speed_ms, max_rate_value>>
runLocals == <<now, position, direction, rate, min_rate, max_rate,
               current_pattern, pattern_start, delay_ms, frames, rotations,
               sampled, tick_start>>

----------------------------------------------------------------------------
(* Bounds of the model *)

MaxLeds == 4          \* with_leds(n) in runs: n in 0..MaxLeds
MaxFrameLeds == 13    \* with_leds(n) for direct draw_frame calls
MaxFrames == 10       \* runs are at most this many frames long
Overhead == 250       \* ms the clock advances per tick besides the sleep

Durations == {0, 1, 27}
BaseSpeeds == {0, 3000}
MaxRateValues == {-5000, 0, 5000}
SinValues == {-10, 0, 5, 10}     \* the values of sin(), in tenths
Builds == {"debug", "release"}

----------------------------------------------------------------------------
(* Program constants *)

DEFAULT_LEDS == 50
F64_MAX == 2147483647
UNSET_THRESHOLD == 1000000000
TRAIL_END == 12
PATTERN_MS == 5000
DELAY_SCALE == 80

BRIGHT_RED == "196"
RED == "160"
DIM_RED_1 == "124"
DIM_RED_2 == "88"
DIM_RED_3 == "52"
EXTRA_DIM == "52;2"
BLANK == " "

patterns == <<"Sine", "Sawtooth", "Square", "Pulse">>

NoFrame == [drawn |-> FALSE]

Call(op, arg) == [op |-> op, arg |-> arg]

----------------------------------------------------------------------------
(* usize arithmetic on the representation *)

ULt(a, b) == IF (a >= 0) = (b >= 0) THEN a < b ELSE b < 0

UAddOverflows(a, i) == a < 0 /\ a + i >= 0

USubOverflows(a, i) == a >= 0 /\ a - i < 0

(* min_rate.max(rate) in place of min_rate.min(rate) *)
FMin_AsMax(a, b) == IF b > a THEN b ELSE a

(* f64::min and f64::max on finite values *)
FMin(a, b) == IF b < a THEN b ELSE a
FMax(a, b) == IF b > a THEN b ELSE a

Abs(x) == IF x < 0 THEN -x ELSE x

----------------------------------------------------------------------------
(* draw_frame *)

(* vec![" "; led_count + 1]: one cell too many *)
BlankDisplay_Extra(n) == [k \in 1..(n + 1) |-> BLANK]

BlankDisplay(n) == [k \in 1..n |-> BLANK]

SetCell(display, idx, cell) == [display EXCEPT ![idx + 1] = cell]

InRange(pos, n) == ULt(pos, n)

HeadStep(display, n, pos) ==
    IF InRange(pos, n) THEN SetCell(display, pos, BRIGHT_RED) ELSE display

(* the step table upside down: the far offsets get the bright colors *)
TrailColor_Reversed(i) ==
    CASE i \in {1, 2} -> EXTRA_DIM
      [] i \in {3, 4} -> DIM_RED_3
      [] i \in {5, 6} -> DIM_RED_2
      [] i \in {7, 8} -> DIM_RED_1
      [] i \in {9, 10} -> RED
      [] OTHER -> BRIGHT_RED

TrailColor(i) ==
    CASE i \in {1, 2} -> BRIGHT_RED
      [] i \in {3, 4} -> RED
      [] i \in {5, 6} -> DIM_RED_1
      [] i \in {7, 8} -> DIM_RED_2
      [] i \in {9, 10} -> DIM_RED_3
      [] OTHER -> EXTRA_DIM

TrailPos(n, pos, dir, i) ==
    IF dir > 0
    THEN (IF ~ULt(pos, i) THEN pos - i ELSE 0)
    ELSE (IF ULt(pos + i, n) THEN pos + i ELSE n - 1)

TrailOverflows(n, pos, dir, i) ==
    /\ dir <= 0
    /\ \/ UAddOverflows(pos, i)
       \/ ~ULt(pos + i, n) /\ USubOverflows(n, 1)

TrailStep(display, n, pos, dir, i) ==
    LET trail_pos == TrailPos(n, pos, dir, i)
    IN  IF ULt(trail_pos, n)
        THEN SetCell(display, trail_pos, TrailColor(i))
        ELSE display

RECURSIVE TrailLoop(_, _, _, _, _, _)
TrailLoop(display, n, pos, dir, i, bld) ==
    IF i >= TRAIL_END
    THEN [panicked |-> FALSE, display |-> display]
    ELSE IF bld = "debug" /\ TrailOverflows(n, pos, dir, i)
    THEN [panicked |-> TRUE, display |-> display]
    ELSE TrailLoop(TrailStep(display, n, pos, dir, i), n, pos, dir, i + 1, bld)

(* rate < max_rate * 0.7 *)
ShouldDim(r, mx) == 10 * r < 7 * mx

(* rate / max_rate < num / 10, with the IEEE quotient for max_rate = 0 *)
DimFactorBelow(r, mx, num) ==
    IF mx > 0 THEN 10 * r < num * mx
    ELSE IF mx < 0 THEN 10 * r > num * mx
    ELSE r < 0

MainColor(r, mx) ==
    IF DimFactorBelow(r, mx, 3) THEN DIM_RED_1
    ELSE IF DimFactorBelow(r, mx, 5) THEN RED
    ELSE BRIGHT_RED

DimStep(display, n, pos, r, mx) ==
    IF InRange(pos, n) /\ ShouldDim(r, mx)
    THEN SetCell(display, pos, MainColor(r, mx))
    ELSE display

ShownMin(mn) == IF mn > UNSET_THRESHOLD THEN 0 ELSE mn

Metrics(show, r, mn, mx) ==
    IF show
    THEN [shown |-> TRUE, rate |-> r, min |-> ShownMin(mn), max |-> mx]
    ELSE [shown |-> FALSE]

draw_frame(n, show, pos, dir, r, mn, mx, bld) ==
    LET trail == TrailLoop(HeadStep(BlankDisplay(n), n, pos), n, pos, dir, 1, bld)
    IN  IF trail.panicked
        THEN [panicked |-> TRUE]
        ELSE [panicked |-> FALSE,
              frame |-> [drawn |-> TRUE,
                         position |-> pos, direction |-> dir, rate |-> r,
                         min_rate |-> mn, max_rate |-> mx,
                         display |-> DimStep(trail.display, n, pos, r, mx),
                         metrics |-> Metrics(show, r, mn, mx)]]

----------------------------------------------------------------------------
(* run_demo: the waveform, the bounce rule and the delay *)

(* rate = match patterns[current_pattern]; s is the sine value in tenths,  *)
(* pe is pattern_start.elapsed() in ms                                     *)
SampleRate(pattern, s, pe, m) ==
    LET half_max_rate == m \div 2
    IN  CASE pattern = "Sine" -> half_max_rate + (half_max_rate * s) \div 10
          [] pattern = "Sawtooth" -> ((pe % PATTERN_MS) * m) \div PATTERN_MS
          [] pattern = "Square" -> IF s >= 0 THEN m ELSE m \div 10
          [] pattern = "Pulse" -> IF s > 9 THEN m ELSE m \div 5

(* (speed_factor * 80.0).round() as u64: the nearest integer *)
DelayExtra_Rounded(r, m) ==
    LET a == IF m > 0 THEN r ELSE -r
        b == Abs(m)
    IN  IF m = 0 THEN (IF r = 0 THEN 0 ELSE IF r > 0 THEN 0 ELSE DELAY_SCALE)
        ELSE IF a <= 0 THEN DELAY_SCALE
        ELSE IF a >= b THEN 0
        ELSE (2 * DELAY_SCALE * (b - a) + b) \div (2 * b)

(* (speed_factor * 80.0) as u64, speed_factor = 1.0 - clamp(r / m, 0, 1);  *)
(* 0/0 is NaN, which min(1.0) turns into 1.0                               *)
(* (computed exactly; the f64 product falls one short of the exact one    *)
(* for a few Sawtooth rates whose exact product is an integer)             *)
DelayExtra(r, m) ==
    LET a == IF m > 0 THEN r ELSE -r
        b == Abs(m)
    IN  IF m = 0 THEN (IF r = 0 THEN 0 ELSE IF r > 0 THEN 0 ELSE DELAY_SCALE)
        ELSE IF a <= 0 THEN DELAY_SCALE
        ELSE IF a >= b THEN 0
        ELSE (DELAY_SCALE * (b - a)) \div b

DelayMs(base, r, m) == base + DelayExtra(r, m)

(* position = (position as i32 + direction) as usize: the cast to i32    *)
(* keeps the represented value, the sum cannot leave i32 in fewer than     *)
(* 2^31 ticks, and the cast back sign-extends, which is the representation *)
Advance(pos, dir) == pos + dir

(* the bounce rule without its `else if position == 0` branch *)
Bounce_NoTurnAtZero(n, pos, dir) ==
    IF ~ULt(pos, n - 1) THEN -1
    ELSE dir

(* `position > led_count - 1` in place of `>=` *)
Bounce_StrictCompare(n, pos, dir) ==
    IF ULt(n - 1, pos) THEN -1
    ELSE IF pos = 0 THEN 1
    ELSE dir

(* the bounce rule of lines 312-316 *)
Bounce(n, pos, dir) ==
    IF ~ULt(pos, n - 1) THEN -1
    ELSE IF pos = 0 THEN 1
    ELSE dir

(* start.elapsed() in place of pattern_start.elapsed() *)
ShouldRotate_FromRunStart(t, ps) == t >= PATTERN_MS

ShouldRotate(t, ps) == t - ps >= PATTERN_MS

(* a rotation that steps over one pattern *)
NextPattern_Skip(cp) == (cp + 2) % Len(patterns)

NextPattern(cp) == (cp + 1) % Len(patterns)

----------------------------------------------------------------------------
(* Construction *)

Init ==
    /\ build \in Builds
    /\ pc = "new"
    /\ led_count = 0
    /\ show_metrics = FALSE
    /\ duration_secs = 0
    /\ base_speed_ms = 0
    /\ max_rate_value = 0
    /\ now = 0
    /\ position = 0
    /\ direction = 1
    /\ rate = 0
    /\ min_rate = F64_MAX
    /\ max_rate = 0
    /\ current_pattern = 0
    /\ pattern_start = 0
    /\ delay_ms = 0
    /\ frame = NoFrame
    /\ frames = 0
    /\ rotations = 0
    /\ sampled = {}
    /\ tick_start = 0
    /\ last_call = Call("none", 0)

New ==
    /\ pc = "new"
    /\ pc' = "built"
    /\ led_count' = DEFAULT_LEDS
    /\ show_metrics' = TRUE
    /\ last_call' = Call("new", 0)
    /\ UNCHANGED <<build, runArgs, runLocals, frame>>

WithLeds(n) ==
    /\ pc = "new"
    /\ pc' = "built"
    /\ led_count' = n
    /\ show_metrics' = TRUE
    /\ last_call' = Call("with_leds", n)
    /\ UNCHANGED <<build, runArgs, runLocals, frame>>

(* a setter that rebuilds the animator from new() *)
ShowMetrics_FromDefault(show) ==
    /\ pc = "built"
    /\ show_metrics' = show
    /\ led_count' = DEFAULT_LEDS
    /\ last_call' = Call("show_metrics", show)
    /\ UNCHANGED <<build, pc, runArgs, runLocals, frame>>

ShowMetrics(show) ==
    /\ pc = "built"
    /\ show_metrics' = show
    /\ last_call' = Call("show_metrics", show)
    /\ UNCHANGED <<build, pc, led_count, runArgs, runLocals, frame>>

----------------------------------------------------------------------------
(* run_demo *)

RunDemo(d, b, m) ==
    /\ pc = "built"
    /\ pc' = "running"
    /\ duration_secs' = d
    /\ base_speed_ms' = b
    /\ max_rate_value' = m
    /\ now' = 0
    /\ position' = 0
    /\ direction' = 1
    /\ rate' = 0
    /\ min_rate' = F64_MAX
    /\ max_rate' = 0
    /\ current_pattern' = 0
    /\ pattern_start' = 0
    /\ delay_ms' = 0
    /\ frame' = NoFrame
    /\ frames' = 0
    /\ rotations' = 0
    /\ sampled' = {}
    /\ tick_start' = 0
    /\ last_call' = Call("run_demo", <<d, b, m>>)
    /\ UNCHANGED <<build, config>>

(* one iteration of the while loop; s is the sine value this tick reads *)
Tick(s) ==
    /\ pc = "running"
    /\ now < duration_secs * 1000
    /\ LET rotate == ShouldRotate(now, pattern_start)
           cp == IF rotate THEN NextPattern(current_pattern) ELSE current_pattern
           ps == IF rotate THEN now ELSE pattern_start
           r == SampleRate(patterns[cp + 1], s, now - ps, max_rate_value)
           mn == FMin(min_rate, r)
           mx == FMax(max_rate, r)
           drawn == draw_frame(led_count, show_metrics, position, direction,
                               r, mn, mx, build)
           pos == Advance(position, direction)
           delay == DelayMs(base_speed_ms, r, max_rate_value)
       IN  /\ tick_start' = now
           /\ current_pattern' = cp
           /\ pattern_start' = ps
           /\ rotations' = IF rotate THEN rotations + 1 ELSE rotations
           /\ rate' = r
           /\ sampled' = sampled \cup {r}
           /\ min_rate' = mn
           /\ max_rate' = mx
           /\ IF drawn.panicked
              THEN /\ pc' = "panicked"
                   /\ UNCHANGED <<frame, frames, position, direction, delay_ms, now>>
              ELSE /\ frame' = drawn.frame
                   /\ frames' = frames + 1
                   /\ position' = pos
                   /\ IF build = "debug" /\ USubOverflows(led_count, 1)
                      THEN /\ pc' = "panicked"
                           /\ UNCHANGED <<direction, delay_ms, now>>
                      ELSE /\ pc' = "running"
                           /\ direction' = Bounce(led_count, pos, direction)
                           /\ delay_ms' = delay
                           /\ now' = now + delay + Overhead
    /\ UNCHANGED <<build, config, runArgs, last_call>>

(* the loop test fails: "Animation demo completed!" *)
Return ==
    /\ pc = "running"
    /\ ~(now < duration_secs * 1000)
    /\ pc' = "done"
    /\ UNCHANGED <<build, config, runArgs, runLocals, frame, last_call>>

RunInputs ==
    {a \in Durations \X BaseSpeeds \X MaxRateValues :
        a[1] * 1000 <= MaxFrames * (a[2] + Overhead)}

Next ==
    \/ New
    \/ \E n \in 0..MaxLeds : WithLeds(n)
    \/ \E show \in BOOLEAN : ShowMetrics(show)
    \/ \E a \in RunInputs : RunDemo(a[1], a[2], a[3])
    \/ \E s \in SinValues : Tick(s)
    \/ Return

Spec == Init /\ [][Next]_vars

(* the loop is the only task: it runs whenever it can *)
LiveSpec == Spec /\ WF_vars(Next)

----------------------------------------------------------------------------
(* Direct calls of draw_frame *)

FramePositions == -1..(MaxFrameLeds + 1)
FrameRates == {-100, 0, 20, 40, 60, 100}
FrameMaxRates == {-100, 0, 100}
FrameMinRates == {20, 2000000000, F64_MAX}

(* a client calls animator.draw_frame(pos, dir, r, mn, mx) once *)
DrawFrameCall(pos, dir, r, mn, mx) ==
    /\ pc = "built"
    /\ LET drawn == draw_frame(led_count, show_metrics, pos, dir, r, mn, mx, build)
       IN  IF drawn.panicked
           THEN pc' = "panicked" /\ frame' = NoFrame
           ELSE pc' = "done" /\ frame' = drawn.frame
    /\ last_call' = Call("draw_frame", <<pos, dir, r, mn, mx>>)
    /\ UNCHANGED <<build, config, runArgs, runLocals>>

NextFrame ==
    \/ New
    \/ \E n \in 0..MaxFrameLeds : WithLeds(n)
    \/ \E show \in BOOLEAN : ShowMetrics(show)
    \/ \E pos \in FramePositions, dir \in {-1, 1}, r \in FrameRates,
          mn \in FrameMinRates, mx \in FrameMaxRates :
          DrawFrameCall(pos, dir, r, mn, mx)

SpecFrame == Init /\ [][NextFrame]_vars

----------------------------------------------------------------------------
(* Notions shared by the properties *)

InRun == pc \in {"running", "done", "panicked"}

(* a step of the loop body (Tick), as opposed to the loop exit *)
TickStep == pc = "running" /\ pc' \in {"running", "panicked"}

(* a step of the loop body that reaches the end of the iteration *)
FullTick == pc = "running" /\ pc' = "running" /\ frames' = frames + 1

Cells == {BLANK, BRIGHT_RED, RED, DIM_RED_1, DIM_RED_2, DIM_RED_3, EXTRA_DIM}

FrameInRange == frame.drawn /\ led_count >= 1
                /\ frame.position >= 0 /\ frame.position < led_count

(* the tier the head step and the dimming rule give the head *)
HeadTier(r, mx) == IF ShouldDim(r, mx) THEN MainColor(r, mx) ELSE BRIGHT_RED

----------------------------------------------------------------------------
(* C1: in a run with led_count >= 1 the head position, as stored after     *)
(* each advance and as passed to the renderer, satisfies                   *)
(* 0 <= position < led_count.                                              *)
C1_PositionInRange ==
    (InRun /\ led_count >= 1) =>
        /\ 0 <= position /\ position < led_count
        /\ frame.drawn => (0 <= frame.position /\ frame.position < led_count)

(* C2: for led_count >= 1 and an in-range position the bar of a frame has  *)
(* exactly led_count cells, each a blank or one colored block.             *)
C2_BarHasLedCountCells ==
    FrameInRange =>
        /\ Len(frame.display) = led_count
        /\ \A k \in 1..Len(frame.display) : frame.display[k] \in Cells

C2_Witness ==
    /\ FrameInRange
    /\ led_count = 13
    /\ frame.position = 12
    /\ frame.direction = 1
    /\ frame.display[1] = BLANK
    /\ frame.display[2] = EXTRA_DIM

(* C3: in a frame with an in-range position no trail offset 1..11 writes   *)
(* the head's index, so the head cell carries the head tier (brightest, or *)
(* the tier the dimming rule chooses).                                     *)
C3_HeadNeverOverwritten ==
    FrameInRange =>
        /\ \A i \in 1..(TRAIL_END - 1) :
              TrailPos(led_count, frame.position, frame.direction, i)
                  # frame.position
        /\ frame.display[frame.position + 1]
              = HeadTier(frame.rate, frame.max_rate)

(* C4: in a run with led_count >= 2 every advance moves the head by one    *)
(* cell, sets the direction to -1 exactly at led_count - 1, to +1 exactly  *)
(* at 0, and leaves it alone everywhere else.                              *)
C4_BounceRule ==
    [][(FullTick /\ led_count >= 2) =>
          /\ Abs(position' - position) = 1
          /\ position' = position + direction
          /\ (position' = led_count - 1) => direction' = -1
          /\ (position' = 0) => direction' = 1
          /\ (position' \notin {0, led_count - 1}) => direction' = direction
          /\ (direction' = -1 /\ direction = 1) => position' = led_count - 1
          /\ (direction' = 1 /\ direction = -1) => position' = 0]_vars

C4_Witness ==
    /\ pc = "running"
    /\ led_count = 3
    /\ frames = 4
    /\ position = 0
    /\ direction = 1

(* C5: in a run with led_count = 1 the head position is 0 at every tick.   *)
C5_SingleLedHeadStays ==
    (InRun /\ led_count = 1) =>
        /\ position = 0
        /\ frame.drawn => frame.position = 0

(* C6: every frame drawn in a run gets a min_rate and a max_rate that      *)
(* bracket every rate sampled so far, the frame's own rate included, and   *)
(* never the unset sentinel.                                               *)
C6_MinMaxBracketSamples ==
    [][(TickStep /\ frames' = frames + 1) =>
          /\ frame'.rate \in sampled'
          /\ \A r \in sampled' : frame'.min_rate <= r /\ r <= frame'.max_rate
          /\ frame'.min_rate <= frame'.max_rate
          /\ frame'.min_rate # F64_MAX]_vars

C6_Witness ==
    /\ pc = "running"
    /\ frame.drawn
    /\ Cardinality(sampled) >= 3
    /\ frame.min_rate < frame.rate
    /\ frame.rate < frame.max_rate

(* C7: the run starts with Sine and every rotation moves the pattern to    *)
(* its successor in Sine -> Sawtooth -> Square -> Pulse -> Sine, at most   *)
(* one rotation per tick.                                                  *)
PatternAfter ==
    [p \in {"Sine", "Sawtooth", "Square", "Pulse"} |->
        CASE p = "Sine" -> "Sawtooth"
          [] p = "Sawtooth" -> "Square"
          [] p = "Square" -> "Pulse"
          [] p = "Pulse" -> "Sine"]

C7_PatternCycle ==
    [][/\ (pc = "built" /\ pc' = "running") =>
             patterns[current_pattern' + 1] = "Sine"
       /\ TickStep =>
             /\ rotations' \in {rotations, rotations + 1}
             /\ (rotations' = rotations) => current_pattern' = current_pattern
             /\ (rotations' = rotations + 1) =>
                   patterns[current_pattern' + 1]
                       = PatternAfter[patterns[current_pattern + 1]]
       /\ (pc = "running" /\ pc' = "done") =>
             current_pattern' = current_pattern]_vars

C7_Witness ==
    /\ pc = "running"
    /\ rotations = 4
    /\ patterns[current_pattern + 1] = "Sine"

(* C8 as claimed: at every tick at run-elapsed time t the number of        *)
(* rotations performed so far is floor(t / 5 s).                           *)
C8_RotationsEqualFloor ==
    (InRun /\ frames > 0) => rotations = tick_start \div PATTERN_MS

(* C8 as amended: a tick rotates exactly when at least 5 s have elapsed    *)
(* since the previous rotation (since the start of the run for the first)  *)
(* and restarts the window at its own time, so the number of rotations at  *)
(* a tick at time t is at most floor(t / 5 s).                             *)
C8_RotationsNeverAhead ==
    [][TickStep =>
          /\ rotations' \in {rotations, rotations + 1}
          /\ (rotations' = rotations + 1) <=> (now - pattern_start >= PATTERN_MS)
          /\ (rotations' = rotations + 1) => pattern_start' = now
          /\ (rotations' = rotations) => pattern_start' = pattern_start
          /\ rotations' <= now \div PATTERN_MS]_vars

C8_Witness ==
    /\ pc = "running"
    /\ rotations >= 2
    /\ rotations < tick_start \div PATTERN_MS

(* C9: frames are drawn only by ticks that start before the duration has   *)
(* elapsed (none for duration 0), and a run that has started eventually    *)
(* returns.                                                                *)
C9_RunIsTimeBounded ==
    /\ [][(frames' # frames /\ pc = "running") =>
             now < duration_secs * 1000]_vars
    /\ []((InRun /\ duration_secs = 0) => frames = 0)
    /\ (pc = "running") ~> (pc = "done")

(* C10: a run of a configuration with led_count = 0 or max_rate_value <= 0 *)
(* is rejected before any frame is drawn and never completes as a normal   *)
(* run.                                                                    *)
C10_BadConfigRejected ==
    (InRun /\ (led_count = 0 \/ max_rate_value <= 0)) =>
        /\ frames = 0
        /\ pc # "done"

(* C11: new() gives led_count = 50 and show_metrics = true, with_leds(n)   *)
(* gives led_count = n and show_metrics = true, show_metrics(flag) sets    *)
(* show_metrics = flag and keeps led_count, however the calls are chained, *)
(* and no step of run_demo (draw_frame included) changes the               *)
(* configuration.                                                          *)
C11_BuildersAndConfig ==
    [][/\ (pc = "new" /\ last_call'.op = "new") =>
             (led_count' = 50 /\ show_metrics' = TRUE)
       /\ (pc = "new" /\ last_call'.op = "with_leds") =>
             (led_count' = last_call'.arg /\ show_metrics' = TRUE)
       /\ (pc = "built" /\ last_call'.op = "show_metrics") =>
             (show_metrics' = last_call'.arg /\ led_count' = led_count)
       /\ (last_call'.op \in {"run_demo", "draw_frame"}) =>
             (led_count' = led_count /\ show_metrics' = show_metrics)]_vars

C11_Witness ==
    /\ pc = "done"
    /\ last_call.op = "run_demo"
    /\ led_count = 3
    /\ show_metrics = FALSE
    /\ frames > 0
    /\ frame.drawn /\ ~frame.metrics.shown

(* C12: with show_metrics enabled the minimum is displayed as 0 when       *)
(* min_rate is the unset sentinel and as min_rate itself for every real    *)
(* minimum, however large.                                                 *)
C12_ShownMinimum ==
    (FrameInRange /\ frame.metrics.shown) =>
        frame.metrics.min
            = (IF frame.min_rate = F64_MAX THEN 0 ELSE frame.min_rate)

(* C13: a cell (other than the head's) that several trail offsets are      *)
(* clamped onto shows the color of the smallest of those offsets.          *)
OffsetsOnto(k) ==
    {i \in 1..(TRAIL_END - 1) :
        TrailPos(led_count, frame.position, frame.direction, i) = k}

Smallest(S) == CHOOSE i \in S : \A j \in S : i <= j

C13_ClosestOffsetVisible ==
    FrameInRange =>
        \A k \in 0..(led_count - 1) :
            (k # frame.position /\ Cardinality(OffsetsOnto(k)) >= 2) =>
                frame.display[k + 1] = TrailColor(Smallest(OffsetsOnto(k)))

(* C14: in a frame with an in-range position the cells ahead of the head   *)
(* are blank, the cells behind it are lit up to distance 11 and blank      *)
(* beyond, and walking away from the head the lit cells never get          *)
(* brighter; cells that no offset is clamped onto carry the level of       *)
(* their own offset.                                                       *)
Level(cell) ==
    CASE cell = BRIGHT_RED -> 0
      [] cell = RED -> 1
      [] cell = DIM_RED_1 -> 2
      [] cell = DIM_RED_2 -> 3
      [] cell = DIM_RED_3 -> 4
      [] cell = EXTRA_DIM -> 5

(* signed distance of cell k behind the head: positive on the trail side *)
Behind(k) == IF frame.direction > 0 THEN frame.position - k
             ELSE k - frame.position

TableLevel(d) == IF d >= 11 THEN 5 ELSE (d - 1) \div 2

C14_TrailFadesBehindHead ==
    FrameInRange =>
        /\ \A k \in 0..(led_count - 1) :
              /\ Behind(k) < 0 => frame.display[k + 1] = BLANK
              /\ Behind(k) > 11 => frame.display[k + 1] = BLANK
              /\ Behind(k) \in 1..11 => frame.display[k + 1] # BLANK
              /\ (Behind(k) \in 1..11 /\ k \notin {0, led_count - 1}) =>
                    Level(frame.display[k + 1]) = TableLevel(Behind(k))
        /\ \A k1, k2 \in 0..(led_count - 1) :
              (1 <= Behind(k1) /\ Behind(k1) < Behind(k2) /\ Behind(k2) <= 11) =>
                  Level(frame.display[k1 + 1]) <= Level(frame.display[k2 + 1])

C14_Witness ==
    /\ FrameInRange
    /\ led_count = 13
    /\ frame.position = 1
    /\ frame.direction = -1
    /\ frame.display[3] = BRIGHT_RED
    /\ frame.display[5] = RED
    /\ frame.display[12] = DIM_RED_3
    /\ frame.display[13] = EXTRA_DIM
    /\ frame.display[1] = BLANK

(* C16: the dimming rule changes no cell but the head's, and with          *)
(* max_rate <= 0 a head that the head step left at the brightest tier      *)
(* keeps it, whatever the rate.                                            *)
BeforeDimming ==
    TrailLoop(HeadStep(BlankDisplay(led_count), led_count, frame.position),
              led_count, frame.position, frame.direction, 1, build).display

C16_DimmingOnlyForPositiveMax ==
    FrameInRange =>
        /\ \A k \in 0..(led_count - 1) :
              k # frame.position => frame.display[k + 1] = BeforeDimming[k + 1]
        /\ (frame.max_rate <= 0
              /\ BeforeDimming[frame.position + 1] = BRIGHT_RED) =>
              frame.display[frame.position + 1] = BRIGHT_RED

(* The value 80 * clamp(1 - r / m, 0, 1) as the fraction ScaledNum / ScaledDen *)
(* (m # 0).                                                                *)
ScaledDen(m) == Abs(m)

ScaledNum(r, m) ==
    LET x == 80 * (Abs(m) - (IF m > 0 THEN r ELSE -r))
    IN  IF x < 0 THEN 0 ELSE IF x > 80 * Abs(m) THEN 80 * Abs(m) ELSE x

IsRounded(d, r, m) ==
    /\ 2 * d * ScaledDen(m) - ScaledDen(m) <= 2 * ScaledNum(r, m)
    /\ 2 * ScaledNum(r, m) < 2 * d * ScaledDen(m) + ScaledDen(m)

IsTruncated(d, r, m) ==
    /\ d * ScaledDen(m) <= ScaledNum(r, m)
    /\ ScaledNum(r, m) < (d + 1) * ScaledDen(m)

(* r1 / m <= r2 / m *)
RatioLeq(r1, r2, m) ==
    IF m > 0 THEN r1 <= r2 ELSE IF m < 0 THEN r2 <= r1 ELSE TRUE

AfterFullTick == pc \in {"running", "done"} /\ frames > 0

(* C15 as claimed (for a positive max_rate_value): the delay of a tick is  *)
(* base_speed + round(80 * clamp(1 - rate / max_rate_value, 0, 1)).        *)
C15_DelayRounds ==
    (AfterFullTick /\ max_rate_value > 0) =>
        IsRounded(delay_ms - base_speed_ms, rate, max_rate_value)

(* C15 as amended: the delay is base_speed plus                            *)
(* 80 * (1 - clamp(rate / max_rate_value, 0, 1)) truncated toward zero     *)
(* (0/0 clamps to 1), so it lies in [base_speed, base_speed + 80] and      *)
(* never increases when rate / max_rate_value increases.                   *)
C15_DelayTruncates ==
    AfterFullTick =>
        /\ delay_ms - base_speed_ms \in 0..80
        /\ max_rate_value # 0 =>
              IsTruncated(delay_ms - base_speed_ms, rate, max_rate_value)
        /\ max_rate_value = 0 => delay_ms = base_speed_ms
        /\ \A r1, r2 \in sampled :
              RatioLeq(r1, r2, max_rate_value) =>
                  DelayMs(base_speed_ms, r1, max_rate_value)
                      >= DelayMs(base_speed_ms, r2, max_rate_value)

C15_Witness ==
    /\ AfterFullTick
    /\ max_rate_value > 0
    /\ ~IsRounded(delay_ms - base_speed_ms, rate, max_rate_value)
    /\ Cardinality(sampled) >= 3

(* C17: every frame of a run after the first is drawn with the direction   *)
(* in which the head moved to reach its position (stated for             *)
(* led_count >= 2 and a positive max_rate_value).                          *)
Sign(x) == IF x > 0 THEN 1 ELSE IF x < 0 THEN -1 ELSE 0

C17_DirectionIsTravel ==
    [][(FullTick /\ frame.drawn /\ led_count >= 2 /\ max_rate_value > 0) =>
          frame'.direction = Sign(frame'.position - frame.position)]_vars

(* C18: in a run with led_count >= 2 the k-th frame (from 0) is drawn at   *)
(* the k-th value of the triangle wave 0, 1, ..., led_count-1, ..., 1, 0,  *)
(* 1, ... of period 2 * (led_count - 1).                                   *)
Triangle(k, n) ==
    LET m == k % (2 * (n - 1))
    IN  IF m <= n - 1 THEN m ELSE 2 * (n - 1) - m

C18_TriangleWave ==
    (InRun /\ led_count >= 2) =>
        /\ position = Triangle(frames, led_count)
        /\ frame.drawn => frame.position = Triangle(frames - 1, led_count)

C18_Witness ==
    /\ pc = "running"
    /\ led_count = 4
    /\ frames = 8
    /\ frame.position = 1
    /\ position = 2

====
